---- MODULE Spec2Model ----
(***************************************************************************)
(* Model of the xeno request-dispatch core: the per-method route tables of *)
(* Router, the consuming builders and handle of App, the before/handler/   *)
(* after chain of MiddlewareStack, and the Error -> Response translations. *)
(***************************************************************************)
EXTENDS Integers, Sequences, FiniteSets, TLC

VARIABLES
    debug_assertions,   \* build configuration: cfg(debug_assertions)
    router,             \* App.router: one route table per supported method
    middleware,         \* MiddlewareStack.middleware: Vec of middleware, in registration order
    last,               \* the most recent operation and what it was observed to do
    apps,               \* App values sharing tables: the Arc<Router> each one holds
    arcs,               \* the Router inside each live Arc<Router>
    tasks               \* the futures of HyperService::call, each at its own step

vars == <<debug_assertions, router, middleware, last, apps, arcs, tasks>>

-----------------------------------------------------------------------------
(* Bounds of the model *)

MaxRoutes == 2        \* routes registered on one App
MaxMiddleware == 3    \* middleware registered on one MiddlewareStack

-----------------------------------------------------------------------------
(* Requests: methods, paths, the extensions side-channel *)

SupportedMethods == {"GET", "POST", "PUT", "DELETE", "PATCH", "HEAD", "OPTIONS"}

Methods == SupportedMethods \cup {"TRACE"}

Lit(s) == <<"lit", s>>

Param(name) == <<"param", name>>

IsParam(seg) == seg[1] = "param"

\* route patterns, as their segment sequences: /hello, /users/:id, /users/me
Patterns ==
    { <<Lit("hello")>>,
      <<Lit("users"), Param("id")>>,
      <<Lit("users"), Lit("me")>> }

\* request paths, as their segment sequences: /hello, /users/123, /users/me, /users
Paths ==
    { <<"hello">>, <<"users", "123">>, <<"users", "me">>, <<"users">> }

\* a HashMap<String, String> left in the extensions by an earlier stage
StaleParams == ("id" :> "stale")

\* the requests handed to the core; the extensions hold at most one
\* HashMap<String, String>, and none on a request fresh from an adapter
Requests ==
    [method : {"GET", "POST", "PUT", "DELETE"}, path : Paths, ext : {{}}]
        \cup [method : Methods, path : {<<"hello">>}, ext : {{}}]
        \cup [method : {"GET"}, path : Paths, ext : {{StaleParams}}]

\* the App values of a program that clones its App, the addresses an
\* Arc<Router> can be allocated at, and the futures a service has in flight
AppIds == {"a", "b"}

Addrs == 1..Cardinality(AppIds)

Tasks == {"t1", "t2"}

-----------------------------------------------------------------------------
(* Error: kinds, status codes, messages *)

Details == {"x", "Test error"}

DetailKinds == {"BadRequest", "Internal", "UnprocessableEntity"}

PlainKinds ==
    {"NotFound", "Json", "Http", "Unauthorized", "Forbidden",
     "PayloadTooLarge", "RequestTimeout"}

Errors ==
    [kind : DetailKinds, detail : Details] \cup [kind : PlainKinds, detail : {""}]

bad_request(message) == [kind |-> "BadRequest", detail |-> message]

\* the mapping with a JSON parse failure counted as an internal error
status_code_json500(error) ==
    CASE error.kind = "NotFound" -> 404
      [] error.kind = "BadRequest" -> 400
      [] error.kind = "Internal" -> 500
      [] error.kind = "Json" -> 500
      [] error.kind = "Http" -> 400
      [] error.kind = "Unauthorized" -> 401
      [] error.kind = "Forbidden" -> 403
      [] error.kind = "PayloadTooLarge" -> 413
      [] error.kind = "RequestTimeout" -> 408
      [] error.kind = "UnprocessableEntity" -> 422

status_code(error) ==
    CASE error.kind = "NotFound" -> 404
      [] error.kind = "BadRequest" -> 400
      [] error.kind = "Internal" -> 500
      [] error.kind = "Json" -> 400
      [] error.kind = "Http" -> 400
      [] error.kind = "Unauthorized" -> 401
      [] error.kind = "Forbidden" -> 403
      [] error.kind = "PayloadTooLarge" -> 413
      [] error.kind = "RequestTimeout" -> 408
      [] error.kind = "UnprocessableEntity" -> 422

safe_message(error) ==
    CASE error.kind = "NotFound" -> "Not Found"
      [] error.kind = "BadRequest" -> "Bad Request"
      [] error.kind = "Internal" -> "Internal Server Error"
      [] error.kind = "Json" -> "Invalid JSON"
      [] error.kind = "Http" -> "HTTP Error"
      [] error.kind = "Unauthorized" -> "Unauthorized"
      [] error.kind = "Forbidden" -> "Forbidden"
      [] error.kind = "PayloadTooLarge" -> "Request Entity Too Large"
      [] error.kind = "RequestTimeout" -> "Request Timeout"
      [] error.kind = "UnprocessableEntity" -> "Unprocessable Entity"

\* the Display implementation derived by thiserror
to_string(error) ==
    CASE error.kind = "NotFound" -> "Not found"
      [] error.kind = "BadRequest" -> "Bad request: " \o error.detail
      [] error.kind = "Internal" -> "Internal server error"
      [] error.kind = "Json" -> "JSON parse error"
      [] error.kind = "Http" -> "HTTP error"
      [] error.kind = "Unauthorized" -> "Unauthorized"
      [] error.kind = "Forbidden" -> "Forbidden"
      [] error.kind = "PayloadTooLarge" -> "Request entity too large"
      [] error.kind = "RequestTimeout" -> "Request timeout"
      [] error.kind = "UnprocessableEntity" -> "Unprocessable entity: " \o error.detail

debug_message(error) == to_string(error)

-----------------------------------------------------------------------------
(* Responses *)

JsonContentType == "application/json; charset=utf-8"

TextBody(s) == [type |-> "text", text |-> s, json |-> <<>>]

\* a body that is the serialisation of the JSON object obj
JsonBody(obj) == [type |-> "json", text |-> "", json |-> obj]

\* impl IntoResponse for &str
into_response(s) ==
    [status |-> 200,
     headers |-> ("content-type" :> "text/plain; charset=utf-8"),
     body |-> TextBody(s)]

Ok(response) == [ok |-> TRUE, response |-> response]

Err(error) == [ok |-> FALSE, error |-> error]

\* what one translation reads from its environment: the value of
\* chrono::Utc::now().to_rfc3339() and of uuid::Uuid::new_v4()
Stamps == {[ts |-> "t1", id |-> "u1"], [ts |-> "t2", id |-> "u2"]}

-----------------------------------------------------------------------------
(* Handlers: the implementations of Handler::call registered on routes *)

Handlers == {"hello", "path", "error"}

\* HashMap::get on the map held by the extensions
ParamsOf(req) == CHOOSE m \in req.ext : TRUE

\* the handlers a MiddlewareStack is made to wrap: those above and one that
\* takes the parameter mapping out of its request and answers "OK"
StackHandlers == Handlers \cup {"consume"}

HandlerCall(h, req) ==
    CASE h = "hello" -> Ok(into_response("Hello, World!"))
      [] h = "consume" -> Ok(into_response("OK"))
      [] h = "error" -> Err(bad_request("Test error"))
      [] h = "path" ->
            IF req.ext = {} THEN Err(bad_request("Missing path parameters"))
            ELSE IF "id" \notin DOMAIN ParamsOf(req)
                 THEN Err(bad_request("Missing id parameter"))
                 ELSE Ok([status |-> 200,
                          headers |-> ("content-type" :> JsonContentType),
                          body |-> JsonBody([id |-> ParamsOf(req)["id"]])])

\* the request a handler was given, as the handler leaves it
HandlerLeaves(h, req) ==
    IF h = "consume" THEN [req EXCEPT !.ext = {}] ELSE req

\* the record of one invocation of a handler: what it was given, what it
\* returned, and what it made of the request it was given
CallEvent(h, req) ==
    [ev |-> "handler", id |-> h, req |-> req, result |-> HandlerCall(h, req),
     left |-> HandlerLeaves(h, req)]

-----------------------------------------------------------------------------
(* matchit::Router: insert and at.  A table is the set of its routes, each  *)
(* a pattern with its value; two routes conflict when they have the same   *)
(* literals and parameters in the same positions.  A lookup prefers a      *)
(* literal segment to a parameter and backtracks to the parameter when the *)
(* literal branch does not lead to a route.                                *)

SameShape(p, q) ==
    /\ Len(p) = Len(q)
    /\ \A i \in 1..Len(p) :
          \/ IsParam(p[i]) /\ IsParam(q[i])
          \/ ~IsParam(p[i]) /\ ~IsParam(q[i]) /\ p[i] = q[i]

\* the insertion that puts the new value in the place of a conflicting route
InsertOverwrite(routes, pattern, value) ==
    [ok |-> TRUE,
     routes |-> {r \in routes : ~SameShape(r.path, pattern)}
                    \cup {[path |-> pattern, value |-> value]}]

Insert(routes, pattern, value) ==
    IF \E r \in routes : SameShape(r.path, pattern)
    THEN [ok |-> FALSE, routes |-> routes]
    ELSE [ok |-> TRUE, routes |-> routes \cup {[path |-> pattern, value |-> value]}]

\* the search with the parameter child tried before a literal child
RECURSIVE SearchParamFirst(_, _, _)
SearchParamFirst(cands, path, i) ==
    IF i > Len(path)
    THEN {r \in cands : Len(r.path) = Len(path)}
    ELSE LET longer == {r \in cands : Len(r.path) >= i}
             lits == {r \in longer : ~IsParam(r.path[i]) /\ r.path[i] = Lit(path[i])}
             pars == {r \in longer : IsParam(r.path[i])}
             viaPar == SearchParamFirst(pars, path, i + 1)
         IN  IF viaPar # {} THEN viaPar ELSE SearchParamFirst(lits, path, i + 1)

\* the routes of cands that match path from segment i on, a literal child
\* tried before the parameter child, backtracking when the literal one fails
RECURSIVE Search(_, _, _)
Search(cands, path, i) ==
    IF i > Len(path)
    THEN {r \in cands : Len(r.path) = Len(path)}
    ELSE LET longer == {r \in cands : Len(r.path) >= i}
             lits == {r \in longer : ~IsParam(r.path[i]) /\ r.path[i] = Lit(path[i])}
             pars == {r \in longer : IsParam(r.path[i])}
             viaLit == Search(lits, path, i + 1)
         IN  IF viaLit # {} THEN viaLit ELSE Search(pars, path, i + 1)

\* the HashMap collected from the (name, value) pairs of a match, a later pair
\* replacing an earlier one of the same name
Captures(pattern, path) ==
    LET idx == {i \in 1..Len(pattern) : IsParam(pattern[i])}
    IN  [k \in {pattern[i][2] : i \in idx} |->
            path[CHOOSE i \in idx : pattern[i][2] = k /\ \A j \in idx : pattern[j][2] = k => j <= i]]

At(routes, path) ==
    LET found == Search(routes, path, 1)
    IN  IF found = {} THEN [ok |-> FALSE]
        ELSE LET r == CHOOSE x \in found : TRUE
             IN  [ok |-> TRUE, value |-> r.value, params |-> Captures(r.path, path)]

-----------------------------------------------------------------------------
(* Router *)

RouterNew == [m \in SupportedMethods |-> {}]

\* Router::add_route: the new tables and whether the insertion took place
add_route(tables, method, pattern, handler) ==
    IF method \notin SupportedMethods
    THEN [tables |-> tables, inserted |-> FALSE]
    ELSE LET result == Insert(tables[method], pattern, handler)
         IN  [tables |-> [tables EXCEPT ![method] = result.routes],
              inserted |-> result.ok]

\* the translation with the status left at 500 for every error
RouterErrorToResponse500(error, stamp) ==
    LET message == IF debug_assertions THEN debug_message(error) ELSE safe_message(error)
    IN  [status |-> 500,
         headers |-> ("content-type" :> JsonContentType) @@ ("x-request-id" :> stamp.id),
         body |-> JsonBody([error |-> message, status |-> 500,
                            timestamp |-> stamp.ts])]

\* the translation whose request id header is left out for one of the ids
RouterErrorToResponseOptionalId(error, stamp) ==
    LET message == IF debug_assertions THEN debug_message(error) ELSE safe_message(error)
        id == IF stamp.id = "u1" THEN ("x-request-id" :> stamp.id) ELSE << >>
    IN  [status |-> status_code(error),
         headers |-> ("content-type" :> JsonContentType) @@ id,
         body |-> JsonBody([error |-> message, status |-> status_code(error),
                            timestamp |-> stamp.ts])]

RouterErrorToResponse(error, stamp) ==
    LET status == status_code(error)
        message == IF debug_assertions THEN debug_message(error) ELSE safe_message(error)
    IN  [status |-> status,
         headers |-> ("content-type" :> JsonContentType) @@ ("x-request-id" :> stamp.id),
         body |-> JsonBody([error |-> message, status |-> status,
                            timestamp |-> stamp.ts])]

\* a 404 with a plain text body
not_found_plain ==
    [status |-> 404,
     headers |-> ("content-type" :> "text/plain; charset=utf-8"),
     body |-> TextBody("Not Found")]

not_found_response ==
    [status |-> 404,
     headers |-> ("content-type" :> JsonContentType),
     body |-> JsonBody([error |-> "Not Found"])]

method_not_allowed_response ==
    [status |-> 405,
     headers |-> ("content-type" :> JsonContentType),
     body |-> JsonBody([error |-> "Method Not Allowed"])]

\* the lookup arms of Router::handle with the table of method PUT taken from
\* the arm above it
match_at_shifted(tables, method, path) ==
    At(tables[IF method = "PUT" THEN "POST" ELSE method], path)

\* the lookup in one table holding the routes of every method
match_at_any_method(tables, method, path) ==
    At(UNION {tables[m] : m \in SupportedMethods}, path)

\* the lookup arms of Router::handle, for a supported method
match_at(tables, method, path) == At(tables[method], path)

\* the Ok arm of Router::handle without the insertion into the extensions
matched_unattached(match_result, req, stamp) ==
    LET call == CallEvent(match_result.value, req)
    IN  [events |-> <<call>>, attached |-> <<>>,
         response |-> IF call.result.ok THEN call.result.response
                      ELSE RouterErrorToResponse(call.result.error, stamp)]

\* the Ok arm of Router::handle with the handler called again after an Err
matched_retry(match_result, req, stamp) ==
    LET req2 == [req EXCEPT !.ext = {match_result.params}]
        call == CallEvent(match_result.value, req2)
    IN  [events |-> IF call.result.ok THEN <<call>> ELSE <<call, call>>,
         attached |-> <<match_result.params>>,
         response |-> IF call.result.ok THEN call.result.response
                      ELSE RouterErrorToResponse(call.result.error, stamp)]

\* the Ok arm of Router::handle with the mapping added to what the
\* extensions of the request hold
matched_merging(match_result, req, stamp) ==
    LET req2 == [req EXCEPT !.ext = @ \cup {match_result.params}]
        call == CallEvent(match_result.value, req2)
    IN  [events |-> <<call>>, attached |-> <<match_result.params>>,
         response |-> IF call.result.ok THEN call.result.response
                      ELSE RouterErrorToResponse(call.result.error, stamp)]

\* the Ok arm of Router::handle: attach the parameters, call the handler
matched(match_result, req, stamp) ==
    LET req2 == [req EXCEPT !.ext = {match_result.params}]
        call == CallEvent(match_result.value, req2)
    IN  [events |-> <<call>>, attached |-> <<match_result.params>>,
         response |-> IF call.result.ok THEN call.result.response
                      ELSE RouterErrorToResponse(call.result.error, stamp)]

\* Router::handle on a request of an unsupported method looked up in the
\* table of GET
RouterHandleDefaultGet(tables, req, stamp) ==
    LET match_result == match_at(tables,
                                 IF req.method \in SupportedMethods
                                 THEN req.method ELSE "GET", req.path)
    IN  IF match_result.ok
        THEN matched(match_result, req, stamp)
        ELSE [events |-> <<>>, attached |-> <<>>, response |-> not_found_response]

\* Router::handle: the events it causes, the mappings it inserts into the
\* extensions of the request, and the response it returns
RouterHandle(tables, req, stamp) ==
    IF req.method \notin SupportedMethods
    THEN [events |-> <<>>, attached |-> <<>>, response |-> method_not_allowed_response]
    ELSE LET match_result == match_at(tables, req.method, req.path)
         IN  IF match_result.ok
             THEN matched(match_result, req, stamp)
             ELSE [events |-> <<>>, attached |-> <<>>, response |-> not_found_response]

-----------------------------------------------------------------------------
(* Middleware: implementations of the before and after hooks *)

Middlewares == {"noop", "auth", "tag", "audit"}

\* Middleware::before: Ok with the request as the hook leaves it, or Err
Before(m, req) ==
    CASE m = "auth" -> [ok |-> FALSE, error |-> [kind |-> "Unauthorized", detail |-> ""]]
      [] m = "tag" -> [ok |-> TRUE, req |-> [req EXCEPT !.ext = {("tag" :> "1")}]]
      [] OTHER -> [ok |-> TRUE, req |-> req]

\* Middleware::after: Ok with the response as the hook leaves it, or Err
After(m, req, res) ==
    CASE m = "audit" -> [ok |-> FALSE, error |-> [kind |-> "Internal", detail |-> "x"]]
      [] m = "tag" ->
            [ok |-> TRUE,
             response |-> [res EXCEPT !.headers = ("x-tag" :> "1") @@ res.headers]]
      [] OTHER -> [ok |-> TRUE, response |-> res]

-----------------------------------------------------------------------------
(* MiddlewareStack *)

StackErrorToResponse(error) ==
    [status |-> status_code(error),
     headers |-> ("content-type" :> JsonContentType),
     body |-> JsonBody([error |-> to_string(error)])]

\* the loop over the before hooks that goes on after a failure and reports
\* the failure it met last
RECURSIVE RunBeforeAll(_, _, _, _)
RunBeforeAll(stack, i, req, events) ==
    IF i > Len(stack)
    THEN [ok |-> TRUE, req |-> req, events |-> events]
    ELSE LET r == Before(stack[i], req)
             e == [ev |-> "before", id |-> stack[i], idx |-> i, req |-> req, result |-> r]
             rest == RunBeforeAll(stack, i + 1, IF r.ok THEN r.req ELSE req,
                                  Append(events, e))
         IN  IF r.ok \/ ~rest.ok THEN rest
             ELSE [ok |-> FALSE, error |-> r.error, events |-> rest.events]

\* the loop over the before hooks, from middleware i on
RECURSIVE RunBefore(_, _, _, _)
RunBefore(stack, i, req, events) ==
    IF i > Len(stack)
    THEN [ok |-> TRUE, req |-> req, events |-> events]
    ELSE LET r == Before(stack[i], req)
             e == [ev |-> "before", id |-> stack[i], idx |-> i, req |-> req, result |-> r]
         IN  IF r.ok
             THEN RunBefore(stack, i + 1, r.req, Append(events, e))
             ELSE [ok |-> FALSE, error |-> r.error, events |-> Append(events, e)]

\* the loop over the after hooks in registration order: from middleware
\* Len(stack) + 1 - i up
RECURSIVE RunAfterForward(_, _, _, _, _)
RunAfterForward(stack, i, req, res, events) ==
    IF i < 1
    THEN [ok |-> TRUE, response |-> res, events |-> events]
    ELSE LET k == Len(stack) + 1 - i
             r == After(stack[k], req, res)
             e == [ev |-> "after", id |-> stack[k], idx |-> k, req |-> req, result |-> r]
         IN  IF r.ok
             THEN RunAfterForward(stack, i - 1, req, r.response, Append(events, e))
             ELSE [ok |-> FALSE, error |-> r.error, events |-> Append(events, e)]

\* the loop over the after hooks that goes on after a failure and reports the
\* failure it met first
RECURSIVE RunAfterAll(_, _, _, _, _)
RunAfterAll(stack, i, req, res, events) ==
    IF i < 1
    THEN [ok |-> TRUE, response |-> res, events |-> events]
    ELSE LET r == After(stack[i], req, res)
             e == [ev |-> "after", id |-> stack[i], idx |-> i, req |-> req, result |-> r]
             rest == RunAfterAll(stack, i - 1, req, IF r.ok THEN r.response ELSE res,
                                 Append(events, e))
         IN  IF r.ok THEN rest
             ELSE [ok |-> FALSE, error |-> r.error, events |-> rest.events]

\* the loop over the after hooks, from middleware i down
RECURSIVE RunAfter(_, _, _, _, _)
RunAfter(stack, i, req, res, events) ==
    IF i < 1
    THEN [ok |-> TRUE, response |-> res, events |-> events]
    ELSE LET r == After(stack[i], req, res)
             e == [ev |-> "after", id |-> stack[i], idx |-> i, req |-> req, result |-> r]
         IN  IF r.ok
             THEN RunAfter(stack, i - 1, req, r.response, Append(events, e))
             ELSE [ok |-> FALSE, error |-> r.error, events |-> Append(events, e)]

\* execute with the after hooks run on the translated error of the handler
StackExecuteAfterOnError(stack, req, handler) ==
    LET b == RunBefore(stack, 1, req, <<>>)
    IN  IF ~b.ok
        THEN [events |-> b.events, response |-> StackErrorToResponse(b.error)]
        ELSE LET call == CallEvent(handler, b.req)
                 events == Append(b.events, call)
                 res == IF call.result.ok THEN call.result.response
                        ELSE StackErrorToResponse(call.result.error)
                 a == RunAfter(stack, Len(stack), b.req, res, events)
             IN  IF a.ok
                 THEN [events |-> a.events, response |-> a.response]
                 ELSE [events |-> a.events,
                       response |-> StackErrorToResponse(a.error)]

\* execute with the handler given the request itself instead of a clone, so
\* that the after hooks are given the request as the handler leaves it
StackExecuteSharedRequest(stack, req, handler) ==
    LET b == RunBefore(stack, 1, req, <<>>)
    IN  IF ~b.ok
        THEN [events |-> b.events, response |-> StackErrorToResponse(b.error)]
        ELSE LET call == CallEvent(handler, b.req)
                 events == Append(b.events, call)
             IN  IF ~call.result.ok
                 THEN [events |-> events,
                       response |-> StackErrorToResponse(call.result.error)]
                 ELSE LET a == RunAfter(stack, Len(stack), call.left,
                                        call.result.response, events)
                      IN  IF a.ok
                          THEN [events |-> a.events, response |-> a.response]
                          ELSE [events |-> a.events,
                                response |-> StackErrorToResponse(a.error)]

\* MiddlewareStack::execute: the events it causes and the response it returns
StackExecute(stack, req, handler) ==
    LET b == RunBefore(stack, 1, req, <<>>)
    IN  IF ~b.ok
        THEN [events |-> b.events, response |-> StackErrorToResponse(b.error)]
        ELSE LET call == CallEvent(handler, b.req)
                 events == Append(b.events, call)
             IN  IF ~call.result.ok
                 THEN [events |-> events,
                       response |-> StackErrorToResponse(call.result.error)]
                 ELSE LET a == RunAfter(stack, Len(stack), b.req, call.result.response, events)
                      IN  IF a.ok
                          THEN [events |-> a.events, response |-> a.response]
                          ELSE [events |-> a.events,
                                response |-> StackErrorToResponse(a.error)]

-----------------------------------------------------------------------------
(* App *)

RouteCount == Cardinality(UNION {router[m] : m \in SupportedMethods})

\* the body shared by App::get, post, put and delete
Register(method, pattern, handler) ==
    LET r == add_route(router, method, pattern, handler)
    IN  /\ RouteCount < MaxRoutes
        /\ router' = r.tables
        /\ last' = [op |-> "route", method |-> method, path |-> pattern,
                    handler |-> handler, inserted |-> r.inserted]
        /\ UNCHANGED <<apps, arcs, tasks, debug_assertions, middleware>>

\* the (pattern, handler) pairs registered through each builder
Registrable(method) ==
    IF method \in {"GET", "POST"} THEN Patterns \X Handlers
    ELSE {<<(<<Lit("hello")>>), "hello">>}

AppGet == \E ph \in Registrable("GET") : Register("GET", ph[1], ph[2])

AppPost == \E ph \in Registrable("POST") : Register("POST", ph[1], ph[2])

AppPut == \E ph \in Registrable("PUT") : Register("PUT", ph[1], ph[2])

AppDelete == \E ph \in Registrable("DELETE") : Register("DELETE", ph[1], ph[2])

\* App::handle
AppHandle ==
    \E req \in Requests, stamp \in Stamps :
        LET r == RouterHandle(router, req, stamp)
        IN  /\ last' = [op |-> "handle", req |-> req, events |-> r.events,
                        attached |-> r.attached, response |-> r.response,
                        entered |-> {"App::handle", "Router::handle"}]
            /\ UNCHANGED <<apps, arcs, tasks, debug_assertions, router, middleware>>

Init ==
    /\ debug_assertions \in BOOLEAN
    /\ router = RouterNew
    /\ middleware = <<>>
    /\ last = [op |-> "new"]
    /\ apps = ("a" :> 1)
    /\ arcs = (1 :> RouterNew)
    /\ tasks = [t \in Tasks |-> [pc |-> "unborn"]]

Next == AppGet \/ AppPost \/ AppPut \/ AppDelete \/ AppHandle

Spec == Init /\ [][Next]_vars

-----------------------------------------------------------------------------
(* A MiddlewareStack used on its own, wrapping one handler *)

\* MiddlewareStack::add
Add ==
    \E m \in Middlewares :
        /\ Len(middleware) < MaxMiddleware
        /\ middleware' = Append(middleware, m)
        /\ last' = [op |-> "add", id |-> m]
        /\ UNCHANGED <<apps, arcs, tasks, debug_assertions, router>>

\* MiddlewareStack::execute
Execute ==
    \E req \in Requests, h \in StackHandlers :
        LET r == StackExecute(middleware, req, h)
        IN  /\ last' = [op |-> "execute", req |-> req, handler |-> h,
                        events |-> r.events, response |-> r.response,
                        entered |-> {"MiddlewareStack::execute"}]
            /\ UNCHANGED <<apps, arcs, tasks, debug_assertions, router, middleware>>

NextStack == Add \/ Execute

SpecStack == Init /\ [][NextStack]_vars

-----------------------------------------------------------------------------------------------------------------------------------------------------
(* The two translations of an Error into a response, applied to one error *)

\* what the other translator returned for the same error, if it was applied
Kept(error, by) ==
    IF last.op = "translate" /\ last.error = error THEN last[by] ELSE <<>>

\* Router::error_to_response applied to an error
TranslateRouter ==
    \E error \in Errors, stamp \in Stamps :
        /\ last' = [op |-> "translate", error |-> error,
                    router |-> <<RouterErrorToResponse(error, stamp)>>,
                    stack |-> Kept(error, "stack")]
        /\ UNCHANGED <<apps, arcs, tasks, debug_assertions, router, middleware>>

\* MiddlewareStack::error_to_response applied to an error
TranslateStack ==
    \E error \in Errors :
        /\ last' = [op |-> "translate", error |-> error,
                    router |-> Kept(error, "router"),
                    stack |-> <<StackErrorToResponse(error)>>]
        /\ UNCHANGED <<apps, arcs, tasks, debug_assertions, router, middleware>>

NextTranslate == TranslateRouter \/ TranslateStack

SpecTranslate == Init /\ [][NextTranslate]_vars

-----------------------------------------------------------------------------
(* Properties of Router and App, checked under Spec *)

\* a path matches a pattern: as many segments, each literal segment equal to
\* the path's, each parameter segment taking any segment
Matches(pattern, path) ==
    /\ Len(pattern) = Len(path)
    /\ \A i \in 1..Len(pattern) : IsParam(pattern[i]) \/ pattern[i] = Lit(path[i])

IsLiteral(pattern) == \A i \in 1..Len(pattern) : ~IsParam(pattern[i])

HasParam(pattern) == ~IsLiteral(pattern)

\* the routes registered under a method, none for a method without a table
RoutesOf(method) == IF method \in SupportedMethods THEN router[method] ELSE {}

Handled == last.op = "handle"

\* the handle just observed invoked exactly the handler h, once
InvokedOnly(h) ==
    /\ Len(last.events) = 1
    /\ last.events[1].ev = "handler"
    /\ last.events[1].id = h

\* C1: with no middleware, a request whose method and path are those of a
\* registered literal route invokes that route's handler, once, and a
\* successful response of the handler is returned with its status and body
\* unmodified; the handler returning "Hello, World!" yields 200 with that body.
C1_LiteralRouteDispatch ==
    (Handled /\ middleware = <<>>) =>
        \A r \in RoutesOf(last.req.method) :
            (IsLiteral(r.path) /\ Matches(r.path, last.req.path)) =>
                /\ InvokedOnly(r.value)
                /\ last.events[1].result.ok =>
                      /\ last.response.status = last.events[1].result.response.status
                      /\ last.response.body = last.events[1].result.response.body
                /\ r.value = "hello" =>
                      /\ last.response.status = 200
                      /\ last.response.body = TextBody("Hello, World!")

C1_Witness ==
    /\ Handled
    /\ last.req.method = "PUT"
    /\ last.req.path = <<"hello">>
    /\ [path |-> <<Lit("hello")>>, value |-> "hello"] \in router["PUT"]
    /\ InvokedOnly("hello")
    /\ last.response.status = 200
    /\ last.response.body = TextBody("Hello, World!")

\* C2: a request whose method has a registered route and whose path matches
\* no pattern registered under that method gets status 404, invokes no
\* handler, and gets a JSON body with an "error" field.
C2_NoMatchIs404 ==
    (/\ Handled
     /\ RoutesOf(last.req.method) # {}
     /\ \A r \in RoutesOf(last.req.method) : ~Matches(r.path, last.req.path)) =>
        /\ last.response.status = 404
        /\ last.events = <<>>
        /\ last.response.body.type = "json"
        /\ "error" \in DOMAIN last.response.body.json

C2_Witness ==
    /\ Handled
    /\ last.req.method = "GET"
    /\ last.req.path = <<"users">>
    /\ \E r \in router["GET"] : r.path = <<Lit("users"), Param("id")>>
    /\ last.response.status = 404
    /\ last.events = <<>>
    /\ last.response.body.json = [error |-> "Not Found"]

\* C3: a request whose method has no registered route, one of the seven
\* supported methods included, gets status 405.
C3_NoRoutesIs405 ==
    (Handled /\ RoutesOf(last.req.method) = {}) => last.response.status = 405

\* the parameter mapping a match of pattern against path binds
Bound(pattern, path) ==
    [k \in {pattern[i][2] : i \in {j \in 1..Len(pattern) : IsParam(pattern[j])}} |->
        path[CHOOSE i \in 1..Len(pattern) : pattern[i] = Param(k)]]

\* C4: when the only route matching a request has a named parameter segment,
\* the handler is called with a request carrying exactly the mapping from
\* each parameter name to the captured segment, whatever the request
\* carried before, and the handler that reads "id" back answers with it.
C4_ParamsAttachedBeforeCall ==
    Handled =>
        \A r \in RoutesOf(last.req.method) :
            (/\ HasParam(r.path)
             /\ Matches(r.path, last.req.path)
             /\ \A q \in RoutesOf(last.req.method) :
                    Matches(q.path, last.req.path) => q = r) =>
                /\ InvokedOnly(r.value)
                /\ last.events[1].req.ext = {Bound(r.path, last.req.path)}
                /\ r.value = "path" =>
                      /\ last.response.status = 200
                      /\ last.response.body =
                            JsonBody([id |-> Bound(r.path, last.req.path)["id"]])

C4_Witness ==
    /\ Handled
    /\ last.req = [method |-> "GET", path |-> <<"users", "123">>, ext |-> {StaleParams}]
    /\ InvokedOnly("path")
    /\ last.events[1].req.ext = {("id" :> "123")}
    /\ last.response.body = JsonBody([id |-> "123"])

UsersMe == <<Lit("users"), Lit("me")>>

UsersId == <<Lit("users"), Param("id")>>

\* C5: with /users/me and /users/:id both registered under a method, a
\* request for /users/me is dispatched to the handler of /users/me; and
\* either of the two can be registered after the other, so that this holds
\* in both orders of registration.
C5_LiteralBeatsParam ==
    [][ /\ (last'.op = "route" /\ last'.method \in SupportedMethods) =>
              \A p \in {UsersMe, UsersId}, o \in {UsersMe, UsersId} :
                  (/\ last'.path = p
                   /\ o # p
                   /\ \E r \in router[last'.method] : r.path = o
                   /\ \A r \in router[last'.method] : r.path # p) =>
                      /\ last'.inserted
                      /\ {p, o} \subseteq {r.path : r \in router'[last'.method]}
                      /\ \E r \in router'[last'.method] :
                            r.path = p /\ r.value = last'.handler
        /\ (last'.op = "handle" /\ last'.req.path = <<"users", "me">>) =>
              \A lit, par \in RoutesOf(last'.req.method) :
                  (lit.path = UsersMe /\ par.path = UsersId) =>
                      /\ Len(last'.events) = 1
                      /\ last'.events[1].id = lit.value ]_vars

C5_Witness ==
    /\ Handled
    /\ last.req.method = "GET"
    /\ last.req.path = <<"users", "me">>
    /\ [path |-> UsersMe, value |-> "hello"] \in router["GET"]
    /\ [path |-> UsersId, value |-> "path"] \in router["GET"]
    /\ InvokedOnly("hello")

\* C8: every request handed to App::handle is driven through the App's
\* MiddlewareStack, whose hooks run around the route resolution.
C8_HandleRunsStack ==
    Handled => "MiddlewareStack::execute" \in last.entered

\* C9: when the matched handler returns an Error, App::handle returns a
\* response whose status is the status code of that error, 400 for a
\* BadRequest, and whose body is JSON with a non-empty "error" field.
C9_HandlerErrorTranslated ==
    (/\ Handled
     /\ last.events # <<>>
     /\ ~last.events[Len(last.events)].result.ok) =>
        LET error == last.events[Len(last.events)].result.error
        IN  /\ last.response.status = status_code(error)
            /\ error.kind = "BadRequest" => last.response.status = 400
            /\ last.response.body.type = "json"
            /\ "error" \in DOMAIN last.response.body.json
            /\ last.response.body.json.error # ""

C9_Witness ==
    /\ Handled
    /\ InvokedOnly("error")
    /\ last.events[1].result = Err(bad_request("Test error"))
    /\ last.response.status = 400
    /\ last.response.body.json.error \in {"Bad Request", "Bad request: Test error"}

-----------------------------------------------------------------------------
(* Properties of MiddlewareStack, checked under SpecStack *)

Executed == last.op = "execute"

\* the hook of a middleware fails
FailsBefore(m) == \E req \in Requests : ~Before(m, req).ok

FailsAfter(m) ==
    \E req \in Requests : ~After(m, req, into_response("Hello, World!")).ok

\* what an event is, without what it carried
Kind(e) == IF e.ev = "handler" THEN <<"handler", 0>> ELSE <<e.ev, e.idx>>

\* C6: with middleware m1..mn registered in that order, when every hook and
\* the handler succeed, execute causes exactly m1.before, ..., mn.before,
\* the handler, mn.after, ..., m1.after, each once; and whenever every
\* before hook succeeds the handler follows the n before hooks.
C6_HookOrder ==
    (Executed /\ \A i \in 1..Len(middleware) : ~FailsBefore(middleware[i])) =>
        LET n == Len(middleware)
        IN  /\ Len(last.events) >= n + 1
            /\ \A i \in 1..n :
                  /\ Kind(last.events[i]) = <<"before", i>>
                  /\ last.events[i].id = middleware[i]
            /\ Kind(last.events[n + 1]) = <<"handler", 0>>
            /\ last.events[n + 1].id = last.handler
            /\ (/\ last.events[n + 1].result.ok
                /\ \A i \in 1..n : ~FailsAfter(middleware[i])) =>
                  /\ Len(last.events) = 2 * n + 1
                  /\ \A i \in 1..n :
                        /\ Kind(last.events[n + 1 + i]) = <<"after", n + 1 - i>>
                        /\ last.events[n + 1 + i].id = middleware[n + 1 - i]

C6_Witness ==
    /\ Executed
    /\ middleware = <<"noop", "tag">>
    /\ last.handler = "hello"
    /\ [i \in 1..5 |-> Kind(last.events[i])] =
          << <<"before", 1>>, <<"before", 2>>, <<"handler", 0>>,
             <<"after", 2>>, <<"after", 1>> >>
    /\ last.response.status = 200

\* C7: if the before hook of a middleware fails, no before hook of a
\* middleware registered after it runs, the handler is not invoked, no
\* after hook runs, and the status of the response is the status code of
\* the error the hook failed with.
C7_BeforeFailureShortCircuits ==
    Executed =>
        \A k \in 1..Len(middleware) :
            (/\ FailsBefore(middleware[k])
             /\ \A i \in 1..(k - 1) : ~FailsBefore(middleware[i])) =>
                /\ Len(last.events) = k
                /\ \A i \in 1..k : Kind(last.events[i]) = <<"before", i>>
                /\ ~last.events[k].result.ok
                /\ last.response.status = status_code(last.events[k].result.error)
                /\ middleware[k] = "auth" => last.response.status = 401

C7_Witness ==
    /\ Executed
    /\ middleware = <<"tag", "auth">>
    /\ [i \in 1..Len(last.events) |-> Kind(last.events[i])] =
          << <<"before", 1>>, <<"before", 2>> >>
    /\ last.response.status = 401

-----------------------------------------------------------------------------
(* Properties of the two translations, checked under SpecTranslate *)

\* C10: for every Error, the response Router translates it into and the
\* response MiddlewareStack translates it into have the same status, the
\* same header names, and a body of the same fields with the same message.
C10_TranslationsAgree ==
    (last.op = "translate" /\ last.router # <<>> /\ last.stack # <<>>) =>
        /\ last.router[1].status = last.stack[1].status
        /\ DOMAIN last.router[1].headers = DOMAIN last.stack[1].headers
        /\ DOMAIN last.router[1].body.json = DOMAIN last.stack[1].body.json
        /\ last.router[1].body.json.error = last.stack[1].body.json.error

-----------------------------------------------------------------------------
(* Further properties of Router, App and the translations *)

IsJsonContentType(response) ==
    /\ "content-type" \in DOMAIN response.headers
    /\ response.headers["content-type"] = JsonContentType

\* C11: every 404, every 405 and every translated-error response carries
\* content-type application/json and a JSON object body with the three
\* fields "error", "status" (equal to the status of the response) and
\* "timestamp".
C11_ErrorEnvelope ==
    (Handled /\ (last.events = <<>> \/ ~last.events[1].result.ok)) =>
        /\ IsJsonContentType(last.response)
        /\ last.response.body.type = "json"
        /\ DOMAIN last.response.body.json = {"error", "status", "timestamp"}
        /\ last.response.body.json.status = last.response.status

\* the status code the taxonomy gives each kind of error
TaxonomyStatus ==
    [NotFound |-> 404, BadRequest |-> 400, Unauthorized |-> 401, Forbidden |-> 403,
     PayloadTooLarge |-> 413, RequestTimeout |-> 408, UnprocessableEntity |-> 422,
     Internal |-> 500, Json |-> 400, Http |-> 400]

\* C12: the status of a translated error is the one the taxonomy fixes for
\* its kind, for every kind, whichever translator is applied and whatever
\* the detail string is.
C12_StatusByKind ==
    last.op = "translate" =>
        /\ last.error.kind \in DOMAIN TaxonomyStatus
        /\ \A i \in DOMAIN last.router :
              last.router[i].status = TaxonomyStatus[last.error.kind]
        /\ \A i \in DOMAIN last.stack :
              last.stack[i].status = TaxonomyStatus[last.error.kind]
        /\ \A d \in Details \cup {""} :
              status_code([last.error EXCEPT !.detail = d]) =
                  TaxonomyStatus[last.error.kind]

C12_Witness ==
    /\ last.op = "translate"
    /\ last.error = [kind |-> "Json", detail |-> ""]
    /\ last.router # <<>>
    /\ last.router[1].status = 400
    /\ last.stack # <<>>
    /\ last.stack[1].status = 400

\* C13: a handle ends in one response, which is the response of the handler
\* it invoked, the translation of the error of the handler it invoked, the
\* 404 response or the 405 response; it invokes at most one handler, once.
C13_OneResponse ==
    Handled =>
        /\ Len(last.events) <= 1
        /\ \A i \in DOMAIN last.events : last.events[i].ev = "handler"
        /\ last.events = <<>> =>
              last.response \in {not_found_response, method_not_allowed_response}
        /\ \A i \in DOMAIN last.events :
              IF last.events[i].result.ok
              THEN last.response = last.events[i].result.response
              ELSE /\ last.response.status = status_code(last.events[i].result.error)
                   /\ "error" \in DOMAIN last.response.body.json
                   /\ "x-request-id" \in DOMAIN last.response.headers

C13_Witness ==
    /\ Handled
    /\ last.req.method = "POST"
    /\ InvokedOnly("path")
    /\ ~last.events[1].result.ok
    /\ last.response.status = 400
    /\ "x-request-id" \in DOMAIN last.response.headers

-----------------------------------------------------------------------------
(* Further properties of MiddlewareStack, checked under SpecStack *)

NoBeforeFails == \A i \in 1..Len(middleware) : ~FailsBefore(middleware[i])

\* C17: if every before hook succeeds and the handler fails, no after hook
\* runs and the response is the translation of the handler's error, with the
\* status code of that error.
C17_HandlerFailureSkipsAfter ==
    LET n == Len(middleware)
    IN  (Executed /\ NoBeforeFails /\ ~last.events[n + 1].result.ok) =>
            /\ Len(last.events) = n + 1
            /\ \A i \in DOMAIN last.events : last.events[i].ev # "after"
            /\ last.response.status = status_code(last.events[n + 1].result.error)
            /\ last.response.body =
                  JsonBody([error |-> to_string(last.events[n + 1].result.error)])

C17_Witness ==
    /\ Executed
    /\ middleware = <<"noop", "tag">>
    /\ last.handler = "path"
    /\ Len(last.events) = 3
    /\ last.events[3].result = Err(bad_request("Missing id parameter"))
    /\ last.response.status = 400

\* C18: if the handler succeeds and the after hook of middleware k fails,
\* the after hooks of the middleware registered after k have run, from the
\* last one down, those of the middleware registered before k do not run,
\* and the response is the translation of the error, not the handler's.
C18_AfterFailureShortCircuits ==
    LET n == Len(middleware)
    IN  (Executed /\ NoBeforeFails /\ last.events[n + 1].result.ok) =>
            \A k \in 1..n :
                (/\ FailsAfter(middleware[k])
                 /\ \A i \in (k + 1)..n : ~FailsAfter(middleware[i])) =>
                    /\ Len(last.events) = n + 1 + (n - k + 1)
                    /\ \A i \in 1..(n - k + 1) :
                          Kind(last.events[n + 1 + i]) = <<"after", n + 1 - i>>
                    /\ \A i \in 1..(n - k) : last.events[n + 1 + i].result.ok
                    /\ ~last.events[Len(last.events)].result.ok
                    /\ last.response.status =
                          status_code(last.events[Len(last.events)].result.error)
                    /\ last.response.body = JsonBody(
                          [error |-> to_string(last.events[Len(last.events)].result.error)])
                    /\ last.response # last.events[n + 1].result.response

C18_Witness ==
    /\ Executed
    /\ middleware = <<"noop", "audit", "tag">>
    /\ last.handler = "hello"
    /\ [i \in 1..Len(last.events) |-> Kind(last.events[i])] =
          << <<"before", 1>>, <<"before", 2>>, <<"before", 3>>, <<"handler", 0>>,
             <<"after", 3>>, <<"after", 2>> >>
    /\ last.response.status = 500

\* C19: each before hook is given the request as the hooks before it left
\* it, the handler is given the request as the last before hook left it,
\* and every after hook is given that same request, whatever the handler
\* made of the request it was given.
C19_RequestThreading ==
    LET n == Len(middleware)
    IN  (Executed /\ NoBeforeFails) =>
            /\ last.events[1].req = last.req
            /\ \A i \in 1..n :
                  /\ last.events[i].result.ok
                  /\ last.events[i + 1].req = last.events[i].result.req
            /\ (\E i \in 1..n : middleware[i] = "tag") =>
                  last.events[n + 1].req.ext = {("tag" :> "1")}
            /\ \A j \in (n + 2)..Len(last.events) :
                  last.events[j].req = last.events[n + 1].req

C19_Witness ==
    /\ Executed
    /\ middleware = <<"tag", "noop">>
    /\ last.handler = "consume"
    /\ Len(last.events) = 5
    /\ last.events[3].req.ext = {("tag" :> "1")}
    /\ last.events[3].left.ext = {}
    /\ last.events[4].req.ext = {("tag" :> "1")}
    /\ last.events[5].req.ext = {("tag" :> "1")}

-----------------------------------------------------------------------------
(* Duplicate registration, checked under Spec *)

\* the step registers (method, pattern) where the table has that very pattern
DuplicateStep ==
    /\ last'.op = "route"
    /\ \E r \in router[last'.method] : r.path = last'.path

C20_Step ==
    /\ DuplicateStep =>
          /\ ~last'.inserted
          /\ router' = router
          /\ \A req \in Requests, stamp \in Stamps :
                (req.method = last'.method /\ Matches(last'.path, req.path)) =>
                    RouterHandle(router', req, stamp) = RouterHandle(router, req, stamp)
    /\ \A m \in SupportedMethods : \A r \in router[m] :
          /\ r \in router'[m]
          /\ \A q \in router'[m] : q.path = r.path => q = r

\* C20: registering a handler for a (method, pattern) the table already has
\* fails without raising and leaves the route table as it was, and no step
\* ever removes a route or puts another handler in its place, so requests
\* for that method and pattern go to the first-registered handler.
C20_DuplicateInsertFails == [][C20_Step]_vars

C20_Witness ==
    /\ last.op = "route"
    /\ ~last.inserted
    /\ \E r \in router[last.method] : r.path = last.path /\ r.value # last.handler

-----------------------------------------------------------------------------
(* App::handle called again with the request of the call before it *)

ServeRequests == {r \in Requests : r.method \in {"GET", "TRACE"}}

\* App::handle
Serve ==
    \E req \in ServeRequests, stamp \in Stamps :
        LET r == RouterHandle(router, req, stamp)
        IN  /\ last' = [op |-> "handle", req |-> req, events |-> r.events,
                        response |-> r.response,
                        entered |-> {"App::handle", "Router::handle"}]
            /\ UNCHANGED <<apps, arcs, tasks, debug_assertions, router, middleware>>

\* App::handle with the request of the call just made, the route table being
\* the one that call saw; first is the response of that call
ServeAgain ==
    /\ last.op \in {"handle", "again"}
    /\ \E stamp \in Stamps :
        LET r == RouterHandle(router, last.req, stamp)
        IN  last' = [op |-> "again", req |-> last.req, events |-> r.events,
                     response |-> r.response, first |-> last.response]
    /\ UNCHANGED <<apps, arcs, tasks, debug_assertions, router, middleware>>

NextServe == AppGet \/ Serve \/ ServeAgain

SpecServe == Init /\ [][NextServe]_vars

\* what of a response does not depend on the moment it was made at
Structure(response) ==
    [status |-> response.status,
     headers |-> DOMAIN response.headers,
     body |-> IF response.body.type = "json"
              THEN <<"json", DOMAIN response.body.json>>
              ELSE <<response.body.type>>]

\* C14: a handle repeated with the same request against the same route
\* table has a response of the same status, header names and body structure
\* as the one before it; where a handler answered, the same response.
C14_RepeatedHandleSameStructure ==
    last.op = "again" =>
        /\ Structure(last.response) = Structure(last.first)
        /\ (last.events # <<>> /\ last.events[1].result.ok) =>
              last.response = last.first

C14_Witness ==
    /\ last.op = "again"
    /\ last.response # last.first
    /\ last.response.status = 400
    /\ last.first.status = 400

-----------------------------------------------------------------------------
(* App values that share a route table: Clone for App and the builders *)

\* the route table reached through an App
TableOf(x) == arcs[apps[x]]

\* Arc::try_unwrap succeeds: nothing else holds the Arc<Router> of the App
Unique(x) ==
    /\ \A y \in DOMAIN apps : apps[y] = apps[x] => y = x
    /\ \A t \in Tasks : "app" \in DOMAIN tasks[t] => tasks[t].app # apps[x]

\* the Arcs left once a builder has consumed the App: its Router is moved
\* out of a unique Arc, which is gone, and a shared Arc stays as it is
KeptArcs(x) ==
    IF Unique(x) THEN [a \in DOMAIN arcs \ {apps[x]} |-> arcs[a]] ELSE arcs

\* a builder that writes the route into the Router inside the shared Arc
RebuiltInPlace(x, method, pattern, handler, fresh) ==
    LET r == add_route(TableOf(x), method, pattern, handler)
    IN  [apps |-> apps, arcs |-> [arcs EXCEPT ![apps[x]] = r.tables],
         inserted |-> r.inserted]

\* the body of a builder: the Router taken out of the Arc or cloned from
\* it, add_route on that Router, and Arc::new(router) at a fresh address
Rebuilt(x, method, pattern, handler, fresh) ==
    LET r == add_route(TableOf(x), method, pattern, handler)
    IN  [apps |-> [apps EXCEPT ![x] = fresh],
         arcs |-> KeptArcs(x) @@ (fresh :> r.tables),
         inserted |-> r.inserted]

RouteCountOf(tables) ==
    Cardinality(UNION {{<<m, r>> : r \in tables[m]} : m \in SupportedMethods})

\* the (pattern, handler) pairs registered through each builder
SharedRoutes(method) ==
    IF method = "GET" THEN {<<p, "path">> : p \in Patterns}
    ELSE {<<(<<Lit("hello")>>), "hello">>}

SharedRequests ==
    {[method |-> "GET", path |-> <<"hello">>, ext |-> {}],
     [method |-> "GET", path |-> <<"users", "123">>, ext |-> {}],
     [method |-> "GET", path |-> <<"users">>, ext |-> {}],
     [method |-> "POST", path |-> <<"hello">>, ext |-> {}],
     [method |-> "TRACE", path |-> <<"hello">>, ext |-> {}]}

SharedRegister(x, method, pattern, handler) ==
    /\ RouteCountOf(TableOf(x)) < MaxRoutes
    /\ \E fresh \in Addrs \ DOMAIN KeptArcs(x) :
          LET n == Rebuilt(x, method, pattern, handler, fresh)
          IN  /\ apps' = n.apps
              /\ arcs' = n.arcs
              /\ last' = [op |-> "route", app |-> x, shared |-> ~Unique(x),
                          method |-> method, path |-> pattern,
                          handler |-> handler, inserted |-> n.inserted]
    /\ UNCHANGED <<debug_assertions, router, middleware, tasks>>

SharedGet ==
    \E x \in DOMAIN apps, ph \in SharedRoutes("GET") :
        SharedRegister(x, "GET", ph[1], ph[2])

SharedPost ==
    \E x \in DOMAIN apps, ph \in SharedRoutes("POST") :
        SharedRegister(x, "POST", ph[1], ph[2])

SharedPut ==
    \E x \in DOMAIN apps, ph \in SharedRoutes("PUT") :
        SharedRegister(x, "PUT", ph[1], ph[2])

SharedDelete ==
    \E x \in DOMAIN apps, ph \in SharedRoutes("DELETE") :
        SharedRegister(x, "DELETE", ph[1], ph[2])

\* Clone for App: the new App holds the same Arc<Router>
AppClone ==
    /\ \E x \in DOMAIN apps, y \in AppIds \ DOMAIN apps :
          /\ apps' = apps @@ (y :> apps[x])
          /\ last' = [op |-> "clone", of |-> x, as |-> y]
    /\ UNCHANGED <<debug_assertions, router, middleware, arcs, tasks>>

\* App::handle on one of the App values
SharedHandle ==
    /\ \E x \in DOMAIN apps, req \in SharedRequests, stamp \in Stamps :
          LET r == RouterHandle(TableOf(x), req, stamp)
          IN  last' = [op |-> "handle", app |-> x, req |-> req,
                       events |-> r.events, response |-> r.response]
    /\ UNCHANGED <<debug_assertions, router, middleware, apps, arcs, tasks>>

NextClone ==
    AppClone \/ SharedGet \/ SharedPost \/ SharedPut \/ SharedDelete \/ SharedHandle

SpecClone == Init /\ [][NextClone]_vars

\* a handler answers the request on the table
Resolvable(tables, req) ==
    \A stamp \in Stamps : RouterHandle(tables, req, stamp).events # <<>>

C15_Step ==
    last'.op = "route" =>
        LET x == last'.app
            own == arcs'[apps'[x]]
        IN  /\ own = add_route(TableOf(x), last'.method, last'.path,
                               last'.handler).tables
            /\ \A m \in SupportedMethods : TableOf(x)[m] \subseteq own[m]
            /\ \A req \in SharedRequests :
                  Resolvable(TableOf(x), req) => Resolvable(own, req)
            /\ \A y \in DOMAIN apps \ {x} :
                  /\ y \in DOMAIN apps'
                  /\ arcs'[apps'[y]] = TableOf(y)
                  /\ \A req \in SharedRequests :
                        Resolvable(arcs'[apps'[y]], req) = Resolvable(TableOf(y), req)

\* C15: a builder step on an App gives that App the table add_route makes
\* of its own, in which every route registered before is kept and
\* resolvable, and leaves the table of every other App, and what is
\* resolvable through it, as it was, also where the two held one Arc.
C15_BuilderIndependence == [][C15_Step]_vars

C15_Witness ==
    /\ last.op = "route"
    /\ last.shared
    /\ last.inserted
    /\ DOMAIN apps = AppIds
    /\ \E y \in AppIds \ {last.app} :
          /\ TableOf(y) # RouterNew
          /\ \A m \in SupportedMethods : TableOf(y)[m] \subseteq TableOf(last.app)[m]
          /\ [path |-> last.path, value |-> last.handler] \in TableOf(last.app)[last.method]
          /\ [path |-> last.path, value |-> last.handler] \notin TableOf(y)[last.method]

-----------------------------------------------------------------------------
(* A service: futures of HyperService::call running side by side, each on
   its own clone of the assembled App *)

AllUnborn == \A t \in Tasks : tasks[t].pc = "unborn"

\* the App is assembled before the service takes it
Assemble ==
    /\ AllUnborn
    /\ SharedGet \/ SharedPost \/ SharedPut \/ SharedDelete

\* HyperService::call: the future is made with a clone of the App and the
\* request; before is the route table at that moment
ServiceCall(t) ==
    /\ tasks[t].pc \in {"unborn", "done"}
    /\ \E req \in SharedRequests :
          tasks' = [tasks EXCEPT ![t] =
                       [pc |-> "handle", app |-> apps["a"], req |-> req,
                        before |-> TableOf("a")]]
    /\ UNCHANGED <<debug_assertions, router, middleware, last, apps, arcs>>

\* the tasks after the future of t has gone through the match on the method
\* and the lookup of Router::handle
Looked(t) ==
    LET c == tasks[t]
        match_result == match_at(arcs[c.app], c.req.method, c.req.path)
    IN  IF c.req.method \notin SupportedMethods
        THEN [tasks EXCEPT ![t] =
                 [pc |-> "done", req |-> c.req, before |-> c.before, stamps |-> {},
                  response |-> method_not_allowed_response]]
        ELSE IF ~match_result.ok
        THEN [tasks EXCEPT ![t] =
                 [pc |-> "done", req |-> c.req, before |-> c.before, stamps |-> {},
                  response |-> not_found_response]]
        ELSE [tasks EXCEPT ![t] =
                 [pc |-> "call", app |-> c.app, req |-> c.req, before |-> c.before,
                  handler |-> match_result.value,
                  attached |-> [c.req EXCEPT !.ext = {match_result.params}]]]

\* the lookup that takes the route it finds out of the table
HandleLookupConsuming(t) ==
    /\ tasks[t].pc = "handle"
    /\ tasks' = Looked(t)
    /\ LET c == tasks[t]
           m == c.req.method
       IN  arcs' = IF m \in SupportedMethods /\ match_at(arcs[c.app], m, c.req.path).ok
                   THEN [arcs EXCEPT ![c.app][m] =
                            {r \in @ : r.value # match_at(arcs[c.app], m, c.req.path).value}]
                   ELSE arcs
    /\ UNCHANGED <<debug_assertions, router, middleware, last, apps>>

\* Router::handle up to the call of the handler
HandleLookup(t) ==
    /\ tasks[t].pc = "handle"
    /\ tasks' = Looked(t)
    /\ UNCHANGED <<debug_assertions, router, middleware, last, apps, arcs>>

\* handler.call(ctx, req).await
HandleInvoke(t) ==
    /\ tasks[t].pc = "call"
    /\ LET c == tasks[t]
       IN  tasks' = [tasks EXCEPT ![t] =
                        [pc |-> "result", app |-> c.app, req |-> c.req,
                         before |-> c.before,
                         result |-> CallEvent(c.handler, c.attached).result]]
    /\ UNCHANGED <<debug_assertions, router, middleware, last, apps, arcs>>

\* the match on the handler's result, and the end of the future
HandleReturn(t) ==
    /\ tasks[t].pc = "result"
    /\ LET c == tasks[t]
       IN  IF c.result.ok
           THEN tasks' = [tasks EXCEPT ![t] =
                             [pc |-> "done", req |-> c.req, before |-> c.before,
                              stamps |-> {}, response |-> c.result.response]]
           ELSE \E stamp \in Stamps :
                    tasks' = [tasks EXCEPT ![t] =
                                 [pc |-> "done", req |-> c.req, before |-> c.before,
                                  stamps |-> {stamp},
                                  response |-> RouterErrorToResponse(c.result.error, stamp)]]
    /\ UNCHANGED <<debug_assertions, router, middleware, last, apps, arcs>>

NextConcurrent ==
    \/ Assemble
    \/ \E t \in Tasks : ServiceCall(t)
    \/ \E t \in Tasks : HandleLookup(t)
    \/ \E t \in Tasks : HandleInvoke(t)
    \/ \E t \in Tasks : HandleReturn(t)

SpecConcurrent == Init /\ [][NextConcurrent]_vars

\* the response a handle of the request returns when nothing runs beside it
Alone(tables, req, stamp) == RouterHandle(tables, req, stamp).response

C16_Done ==
    \A t \in Tasks :
        tasks[t].pc = "done" =>
            /\ \A stamp \in (IF tasks[t].stamps = {} THEN Stamps ELSE tasks[t].stamps) :
                  tasks[t].response = Alone(tasks[t].before, tasks[t].req, stamp)
            /\ TableOf("a") = tasks[t].before

C16_Step ==
    tasks' # tasks =>
        /\ arcs' = arcs
        /\ apps' = apps
        /\ router' = router
        /\ middleware' = middleware

\* C16: no step of a handle changes a route table or the middleware list,
\* and however the handles of the futures interleave, each one ends with
\* the response a handle of its request on the table it started from
\* returns when run alone, the table being then what it was at the start.
C16_ConcurrentHandles == []C16_Done /\ [][C16_Step]_vars

C16_Witness ==
    /\ tasks["t1"].pc = "done"
    /\ tasks["t1"].response.status = 200
    /\ tasks["t1"].before # RouterNew
    /\ tasks["t2"].pc = "result"
    /\ ~tasks["t2"].result.ok
    /\ tasks["t2"].before = tasks["t1"].before

-----------------------------------------------------------------------------
(* The message of a translated error in a production build *)

\* C21: in a build without debug_assertions the message of a translated
\* error is the safe static string of the error's kind, whichever of the
\* two translators made the response.
C21_SafeMessageInProduction ==
    (last.op = "translate" /\ ~debug_assertions) =>
        /\ last.router # <<>> =>
              last.router[1].body.json.error = safe_message(last.error)
        /\ last.stack # <<>> =>
              last.stack[1].body.json.error = safe_message(last.error)

-----------------------------------------------------------------------------
(* One route table per method *)

MatchingIn(method, path) == {r \in RoutesOf(method) : Matches(r.path, path)}

C23_Dispatch ==
    (Handled /\ last.req.method \in SupportedMethods) =>
        /\ MatchingIn(last.req.method, last.req.path) = {} =>
              /\ last.events = <<>>
              /\ last.response = not_found_response
        /\ MatchingIn(last.req.method, last.req.path) # {} =>
              /\ Len(last.events) = 1
              /\ \E r \in MatchingIn(last.req.method, last.req.path) :
                    r.value = last.events[1].id

C23_Step ==
    last'.op = "route" =>
        /\ \A m \in SupportedMethods \ {last'.method} : router'[m] = router[m]
        /\ last'.inserted =
              ~\E r \in router[last'.method] : SameShape(r.path, last'.path)

\* C23: a request is dispatched within the table of its own method only:
\* to a handler registered under that method for a matching pattern, and to
\* the 404 response if there is none, whatever the other tables hold; a
\* registration touches the table of its method only and conflicts with
\* routes of that table only, so one pattern can have a handler per method.
C23_MethodIndependence == []C23_Dispatch /\ [][C23_Step]_vars

C23_Witness ==
    /\ Handled
    /\ last.req.method = "POST"
    /\ last.req.path = <<"hello">>
    /\ [path |-> <<Lit("hello")>>, value |-> "hello"] \in router["GET"]
    /\ [path |-> <<Lit("hello")>>, value |-> "error"] \in router["POST"]
    /\ InvokedOnly("error")
    /\ last.response.status = 400

-----------------------------------------------------------------------------
(* The parameter mapping on the request a handler is given *)

\* the routes a lookup can end at: the literal ones among the matching
\* routes if there are any
Preferred(method, path) ==
    LET lits == {r \in MatchingIn(method, path) : IsLiteral(r.path)}
    IN  IF lits # {} THEN lits ELSE MatchingIn(method, path)

\* C26: a handler invoked by Router::handle is given a request with exactly
\* one parameter mapping, the one bound from the match that chose the
\* handler, whatever mapping the request came with, and an empty one for a
\* route without parameter segments; a handle that ends in 404 or 405
\* inserts no mapping.
C26_ExactlyOneMapping ==
    Handled =>
        /\ last.events = <<>> =>
              /\ last.attached = <<>>
              /\ last.response.status \in {404, 405}
        /\ last.events # <<>> =>
              /\ Cardinality(last.events[1].req.ext) = 1
              /\ Len(last.attached) = 1
              /\ last.events[1].req.ext = {last.attached[1]}
              /\ \E r \in Preferred(last.req.method, last.req.path) :
                    /\ r.value = last.events[1].id
                    /\ last.events[1].req.ext = {Bound(r.path, last.req.path)}
                    /\ IsLiteral(r.path) =>
                          \A p \in last.events[1].req.ext : DOMAIN p = {}

C26_Witness ==
    /\ Handled
    /\ last.req.ext = {StaleParams}
    /\ last.req.path = <<"hello">>
    /\ InvokedOnly("path")
    /\ \A p \in last.events[1].req.ext : DOMAIN p = {}
    /\ Cardinality(last.events[1].req.ext) = 1
    /\ last.response.status = 400

-----------------------------------------------------------------------------
(* Router used on its own, with methods it has no table for *)

RouterMethods == Methods \cup {"CONNECT"}

\* the routes given to Router::add_route
RouterRoutes ==
    {"GET", "PATCH", "TRACE", "CONNECT"}
        \X {<<Lit("hello")>>, <<Lit("users"), Param("id")>>}
        \X {"hello", "path"}

RouterRequests ==
    [method : RouterMethods, path : {<<"hello">>, <<"users", "123">>}, ext : {{}}]
        \cup [method : {"TRACE", "GET"}, path : {<<"users", "123">>},
              ext : {{StaleParams}}]

\* Router::add_route
RouterAddRoute ==
    /\ RouteCount < MaxRoutes
    /\ \E route \in RouterRoutes :
          LET r == add_route(router, route[1], route[2], route[3])
          IN  /\ router' = r.tables
              /\ last' = [op |-> "add_route", method |-> route[1], path |-> route[2],
                          handler |-> route[3], inserted |-> r.inserted]
    /\ UNCHANGED <<apps, arcs, tasks, debug_assertions, middleware>>

\* Router::handle
RouterHandleRequest ==
    /\ \E req \in RouterRequests, stamp \in Stamps :
          LET r == RouterHandle(router, req, stamp)
          IN  last' = [op |-> "handle", req |-> req, events |-> r.events,
                       attached |-> r.attached, response |-> r.response]
    /\ UNCHANGED <<apps, arcs, tasks, debug_assertions, router, middleware>>

NextRouter == RouterAddRoute \/ RouterHandleRequest

SpecRouter == Init /\ [][NextRouter]_vars

C25_Handle ==
    (Handled /\ last.req.method \notin SupportedMethods) =>
        /\ last.response = method_not_allowed_response
        /\ last.response.status = 405
        /\ last.events = <<>>
        /\ last.attached = <<>>

C25_Step ==
    (last'.op = "add_route" /\ last'.method \notin SupportedMethods) =>
        /\ ~last'.inserted
        /\ router' = router
        /\ DOMAIN router' = SupportedMethods

\* C25: add_route with a method that has no table returns and leaves the
\* seven tables as they were, and handle on a request of such a method
\* returns the 405 response, calls no handler and inserts no mapping,
\* whatever the tables hold.
C25_UnsupportedMethod == []C25_Handle /\ [][C25_Step]_vars

C25_Witness ==
    /\ Handled
    /\ last.req.method = "TRACE"
    /\ last.req.path = <<"users", "123">>
    /\ last.req.ext = {StaleParams}
    /\ [path |-> <<Lit("users"), Param("id")>>, value |-> "path"] \in router["GET"]
    /\ last.response.status = 405

-----------------------------------------------------------------------------
(* The hyper adapter: convert_request and HyperService::call *)

\* the largest max_body_size an adapter is given, in bytes
MaxBodySize == 2

payload_too_large == [kind |-> "PayloadTooLarge", detail |-> ""]

\* Option<usize>: None is {} and Some(n) is {n}
Some(n) == {n}

None == {}

\* a request as hyper hands it over: the parsed content-length header if
\* there is one, and what collecting the body gives, an error or that many
\* bytes; hyper reads as many bytes as a content-length header declares
Incoming ==
    {raw \in [method : {"GET", "PUT", "DELETE"}, path : {<<"hello">>},
              content_length : {None} \cup {Some(n) : n \in 0..(MaxBodySize + 1)},
              collected : {[ok |-> FALSE]}
                              \cup [ok : {TRUE}, len : 0..(MaxBodySize + 1)]] :
        (raw.content_length # None /\ raw.collected.ok) =>
            raw.content_length = Some(raw.collected.len)}

\* convert_request with a body of max_body_size bytes refused
convert_request_strict(raw, max_body_size) ==
    IF \E length \in raw.content_length : length > max_body_size
    THEN Err(payload_too_large)
    ELSE IF ~raw.collected.ok
    THEN Err(bad_request("Failed to read request body"))
    ELSE IF raw.collected.len >= max_body_size
    THEN Err(payload_too_large)
    ELSE [ok |-> TRUE,
          req |-> [method |-> raw.method, path |-> raw.path, ext |-> {}]]

\* HyperAdapter::convert_request
convert_request(raw, max_body_size) ==
    IF \E length \in raw.content_length : length > max_body_size
    THEN Err(payload_too_large)
    ELSE IF ~raw.collected.ok
    THEN Err(bad_request("Failed to read request body"))
    ELSE IF raw.collected.len > max_body_size
    THEN Err(payload_too_large)
    ELSE [ok |-> TRUE,
          req |-> [method |-> raw.method, path |-> raw.path, ext |-> {}]]

\* HyperAdapter::error_to_response
HyperErrorToResponse(error, stamp) ==
    LET status == status_code(error)
        message == IF debug_assertions THEN debug_message(error) ELSE safe_message(error)
    IN  [status |-> status,
         headers |-> ("content-type" :> JsonContentType) @@ ("x-request-id" :> stamp.id),
         body |-> JsonBody([error |-> message, status |-> status,
                            timestamp |-> stamp.ts])]

\* HyperService::call on an adapter made with_max_body_size; the bodies of
\* the responses are text, which convert_response keeps as it is
HyperCall ==
    /\ \E max_body_size \in 0..MaxBodySize, raw \in Incoming, stamp \in Stamps :
          LET c == convert_request(raw, max_body_size)
              r == RouterHandle(router, c.req, stamp)
          IN  last' = [op |-> "call", max_body_size |-> max_body_size, raw |-> raw,
                       stamp |-> stamp,
                       entered |-> IF c.ok THEN {"App::handle", "Router::handle"} ELSE {},
                       events |-> IF c.ok THEN r.events ELSE <<>>,
                       response |-> IF c.ok THEN r.response
                                    ELSE HyperErrorToResponse(c.error, stamp)]
    /\ UNCHANGED <<apps, arcs, tasks, debug_assertions, router, middleware>>

NextAdapter == AppPut \/ AppDelete \/ HyperCall

SpecAdapter == Init /\ [][NextAdapter]_vars

Called == last.op = "call"

Refused(status) ==
    /\ last.response.status = status
    /\ last.entered = {}
    /\ last.events = <<>>
    /\ last.response.body.type = "json"
    /\ last.response.body.json.status = status

\* C24: a request declaring more than max_body_size bytes, or whose
\* collected body is longer, gets the translated PayloadTooLarge response,
\* 413, and one whose body cannot be read gets 400, App::handle not being
\* called for either; a body of exactly max_body_size bytes goes to
\* App::handle, whose response is returned.
C24_BodyLimit ==
    Called =>
        LET raw == last.raw
            declared_over == \E length \in raw.content_length :
                                length > last.max_body_size
        IN  /\ declared_over =>
                  /\ Refused(413)
                  /\ last.response = HyperErrorToResponse(payload_too_large, last.stamp)
            /\ (raw.collected.ok /\ raw.collected.len > last.max_body_size) =>
                  Refused(413)
            /\ (~declared_over /\ ~raw.collected.ok) => Refused(400)
            /\ (raw.collected.ok /\ raw.collected.len = last.max_body_size) =>
                  /\ "App::handle" \in last.entered
                  /\ last.response =
                        RouterHandle(router, [method |-> raw.method, path |-> raw.path,
                                              ext |-> {}], last.stamp).response

C24_Witness ==
    /\ Called
    /\ last.max_body_size > 0
    /\ last.raw.content_length = Some(last.max_body_size)
    /\ last.raw.collected = [ok |-> TRUE, len |-> last.max_body_size]
    /\ "App::handle" \in last.entered
    /\ InvokedOnly("hello")
    /\ last.response.status = 200

-----------------------------------------------------------------------------
(* The text of the body of a translated error.  A text is a sequence of
   tokens: a token is one of the characters that matter to JSON, or a run
   of characters that are ordinary both inside and outside a JSON string
   apart from ':' and ' ', which appear in runs inside strings only *)

\* the longest detail string of an error, in tokens
MaxDetailLen == 2

Quote == "\""

Backslash == "\\"

DetailTokens == {"a", Quote, Backslash}

RawDetails == UNION {[1..n -> DetailTokens] : n \in 0..MaxDetailLen}

\* the errors with the detail string spelled out
RawErrors ==
    [kind : DetailKinds, detail : RawDetails] \cup [kind : PlainKinds, detail : {<<>>}]

\* the Display implementation derived by thiserror, {0} being the detail
DisplayText(error) ==
    <<to_string([error EXCEPT !.detail = ""])>>
        \o (IF error.kind \in {"BadRequest", "UnprocessableEntity"}
            THEN error.detail ELSE <<>>)

\* serde_json writing the characters of a string
RECURSIVE Escaped(_)
Escaped(text) ==
    IF text = <<>> THEN <<>>
    ELSE (IF Head(text) \in {Quote, Backslash}
          THEN <<Backslash, Head(text)>> ELSE <<Head(text)>>) \o Escaped(Tail(text))

\* serde_json writing a string value
JsonString(text) == <<Quote>> \o Escaped(text) \o <<Quote>>

\* body.to_string() of the json! object of Router::error_to_response, whose
\* keys serde_json keeps in order
RouterBodyText(error, stamp) ==
    LET message == IF debug_assertions THEN DisplayText(error)
                   ELSE <<safe_message(error)>>
    IN  <<"{">> \o JsonString(<<"error">>) \o <<":">> \o JsonString(message)
            \o <<",">> \o JsonString(<<"status">>) \o <<":">>
            \o <<ToString(status_code(error))>>
            \o <<",">> \o JsonString(<<"timestamp">>) \o <<":">>
            \o JsonString(<<stamp.ts>>) \o <<"}">>

\* format!("{{\"error\":\"{}\"}}", error) of MiddlewareStack::error_to_response
StackBodyText(error) ==
    <<"{", Quote, "error", Quote, ":", Quote>> \o DisplayText(error) \o <<Quote, "}">>

\* Router::error_to_response, the body as text
RenderRouter ==
    /\ \E error \in RawErrors, stamp \in Stamps :
          last' = [op |-> "render", by |-> "router", error |-> error,
                   status |-> status_code(error),
                   text |-> RouterBodyText(error, stamp)]
    /\ UNCHANGED <<apps, arcs, tasks, debug_assertions, router, middleware>>

\* MiddlewareStack::error_to_response, the body as text
RenderStack ==
    /\ \E error \in RawErrors :
          last' = [op |-> "render", by |-> "stack", error |-> error,
                   status |-> status_code(error),
                   text |-> StackBodyText(error)]
    /\ UNCHANGED <<apps, arcs, tasks, debug_assertions, router, middleware>>

NextRender == RenderRouter \/ RenderStack

SpecRender == Init /\ [][NextRender]_vars

(* Reading a text as JSON: an object whose values are strings or numbers *)

\* the index after the quote that closes the string whose characters start
\* at i, or 0 if the string does not end or has a wrong escape
RECURSIVE StringEnd(_, _)
StringEnd(text, i) ==
    IF i > Len(text) THEN 0
    ELSE IF text[i] = Quote THEN i + 1
    ELSE IF text[i] = Backslash
    THEN IF i + 1 <= Len(text) /\ text[i + 1] \in {Quote, Backslash}
         THEN StringEnd(text, i + 2) ELSE 0
    ELSE StringEnd(text, i + 1)

\* the index after the string that starts at i, or 0
AfterString(text, i) ==
    IF i <= Len(text) /\ text[i] = Quote THEN StringEnd(text, i + 1) ELSE 0

IsNumber(token) == token \in {ToString(n) : n \in 100..599}

\* the members of an object from i on, up to the end of the text: the keys
\* with a string value and the keys with a number value
RECURSIVE Members(_, _, _, _)
Members(text, i, strings, numbers) ==
    LET k == AfterString(text, i)
        key == SubSeq(text, i + 1, k - 2)
        v == IF k # 0 /\ k + 1 <= Len(text) /\ text[k] = ":"
             THEN IF IsNumber(text[k + 1]) THEN k + 2 ELSE AfterString(text, k + 1)
             ELSE 0
        strings2 == IF IsNumber(text[k + 1]) THEN strings ELSE strings \cup {key}
        numbers2 == IF IsNumber(text[k + 1]) THEN numbers \cup {key} ELSE numbers
    IN  IF v = 0 \/ v > Len(text) THEN [ok |-> FALSE]
        ELSE IF text[v] = "}"
        THEN IF v = Len(text)
             THEN [ok |-> TRUE, strings |-> strings2, numbers |-> numbers2]
             ELSE [ok |-> FALSE]
        ELSE IF text[v] = ","
        THEN Members(text, v + 1, strings2, numbers2)
        ELSE [ok |-> FALSE]

ParseObject(text) ==
    IF Len(text) < 2 \/ text[1] # "{" THEN [ok |-> FALSE]
    ELSE IF text = <<"{", "}">> THEN [ok |-> TRUE, strings |-> {}, numbers |-> {}]
    ELSE Members(text, 2, {}, {})

Rendered == last.op = "render"

\* C22: the body of a translated error parses as a JSON object with a
\* string field "error", whatever the detail string of the error holds.
C22_BodyWellFormed ==
    Rendered =>
        /\ ParseObject(last.text).ok
        /\ <<"error">> \in ParseObject(last.text).strings

\* the body Router::error_to_response makes is such an object for every error
RouterBodyWellFormed ==
    (Rendered /\ last.by = "router") =>
        /\ ParseObject(last.text).ok
        /\ ParseObject(last.text).strings = {<<"error">>, <<"timestamp">>}
        /\ ParseObject(last.text).numbers = {<<"status">>}

\* the body MiddlewareStack::error_to_response makes is one where the
\* Display of the error has neither a quote nor a backslash
StackBodyPlain ==
    (/\ Rendered
     /\ last.by = "stack"
     /\ \A i \in DOMAIN DisplayText(last.error) :
           DisplayText(last.error)[i] \notin {Quote, Backslash}) =>
        /\ ParseObject(last.text).ok
        /\ ParseObject(last.text).strings = {<<"error">>}

====
